---- MODULE Spec2Model ----
(***************************************************************************)
(* A model of the textual path engine of the file_paths crate: the generic *)
(* resolver and relative-path computer (src/src/common.rs), the platform   *)
(* variant dispatcher (src/src/argumented.rs) and the Path value type with *)
(* its extension helpers (src/src/lib.rs).                                 *)
(*                                                                         *)
(* A path string is a sequence of characters, each character its Unicode    *)
(* code point.  A panic of the program is the value Panic, which is no     *)
(* path.                                                                   *)
(***************************************************************************)
EXTENDS Integers, Sequences, FiniteSets

VARIABLES paths, manipulation, op, out, self

vars == <<paths, manipulation, op, out, self>>

(***************************************************************************)
(* Bounds and input sets.                                                  *)
(***************************************************************************)
\* longest path string given to a call that takes one path
MaxLen == 4
\* longest path string given to a call that takes two paths
MaxPairLen == 2

\* the characters the code tells apart, as code points
Slash == 47
Backslash == 92
Dot == 46
Colon == 58

\* the characters of the paths explored: `/`, `\`, `.`, `:`, `a`, `b` and the space
Alphabet == {Slash, Backslash, Dot, Colon, 97, 98, 32}

Strings(n) == UNION {[1..k -> Alphabet] : k \in 0..n}

Variants == {"Default", "Windows"}

\* the outcome of a failed assert! or of an out-of-range index or slice, where a
\* String was expected: -1 is no code point
Panic == <<-1>>

\* the same outcome where a Vec<String> was expected
VecPanic == <<Panic>>

(***************************************************************************)
(* Regular expressions and string primitives.                              *)
(***************************************************************************)
\* [A-Za-z]
AsciiLetters == (65..90) \cup (97..122)

\* PATH_SEPARATOR, [/\\], on one character
IsSeparator(c) == c \in {Slash, Backslash}

\* STARTS_WITH_PATH_SEPARATOR.is_match(path), ^[/\\]
StartsWithPathSeparator(path) == Len(path) >= 1 /\ IsSeparator(path[1])

\* str::starts_with
StartsWith(s, prefix) ==
    Len(s) >= Len(prefix) /\ SubSeq(s, 1, Len(prefix)) = prefix

\* s[n..], a slice from the byte offset that ends the first n characters of s
SliceFrom(s, n) == IF n > Len(s) THEN Panic ELSE SubSeq(s, n + 1, Len(s))

\* PATH_SEPARATOR.split(path): the pieces between separators, empty ones kept
RECURSIVE Split(_)
Split(path) ==
    IF path = <<>> THEN << <<>> >>
    ELSE LET rest == Split(Tail(path)) IN
         IF IsSeparator(Head(path)) THEN << <<>> >> \o rest
         ELSE << <<Head(path)>> \o Head(rest) >> \o Tail(rest)

\* [String]::join("/")
RECURSIVE Join(_)
Join(parts) ==
    IF parts = <<>> THEN <<>>
    ELSE IF Len(parts) = 1 THEN parts[1]
    ELSE parts[1] \o <<Slash>> \o Join(Tail(parts))

\* char::is_whitespace, the Unicode White_Space property that str::trim_start
\* strips: U+0009 to U+000D, U+0020, U+0085, U+00A0, U+1680, U+2000 to
\* U+200A, U+2028, U+2029, U+202F, U+205F and U+3000
IsWhitespace(c) ==
    c \in (9..13) \cup {32, 133, 160, 5760} \cup (8192..8202)
             \cup {8232, 8233, 8239, 8287, 12288}

\* str::trim_start
RECURSIVE TrimStart(_)
TrimStart(s) ==
    IF s # <<>> /\ IsWhitespace(Head(s)) THEN TrimStart(Tail(s)) ELSE s

\* Vec::remove(j): panics when j is out of range (j is zero-based)
RemoveAt(v, j) ==
    IF j >= Len(v) THEN VecPanic
    ELSE SubSeq(v, 1, j) \o SubSeq(v, j + 2, Len(v))

(***************************************************************************)
(* common.rs: the generic resolver.                                        *)
(***************************************************************************)
\* PushPiece with a `..` kept when the accumulator is empty
PushPieceKeepingDotDot(r, p) ==
    IF p = <<Dot>> THEN r
    ELSE IF p = <<Dot, Dot>> /\ r # <<>> THEN SubSeq(r, 1, Len(r) - 1)
    ELSE IF p # <<>> THEN Append(r, p)
    ELSE r

\* the loop body of resolve_one_without_starting_sep on one piece p
PushPiece(r, p) ==
    IF p = <<Dot>> THEN r
    ELSE IF p = <<Dot, Dot>> THEN (IF r # <<>> THEN SubSeq(r, 1, Len(r) - 1) ELSE r)
    ELSE IF p # <<>> THEN Append(r, p)
    ELSE r

RECURSIVE FoldPieces(_, _)
FoldPieces(r, pieces) ==
    IF pieces = <<>> THEN r
    ELSE FoldPieces(PushPiece(r, Head(pieces)), Tail(pieces))

resolve_one_without_starting_sep(path) == Join(FoldPieces(<<>>, Split(path)))

\* common_resolve_one with the leading separator lost when nothing else is left
common_resolve_one_no_root(path) ==
    LET r == resolve_one_without_starting_sep(path)
    IN  IF StartsWithPathSeparator(path) /\ r # <<>> THEN <<Slash>> \o r ELSE r

common_resolve_one(path) ==
    LET starts_with_slash == StartsWithPathSeparator(path)
        r == resolve_one_without_starting_sep(path)
    IN  IF starts_with_slash THEN <<Slash>> \o r ELSE r

common_resolve(path1, path2) ==
    IF StartsWithPathSeparator(path2) THEN common_resolve_one(path2)
    ELSE LET starts_with_slash == StartsWithPathSeparator(path1)
             path1_resolved == resolve_one_without_starting_sep(path1)
             r == IF path2 = <<>> THEN path1_resolved
                  ELSE resolve_one_without_starting_sep(path1_resolved \o <<Slash>> \o path2)
         IN  IF starts_with_slash THEN <<Slash>> \o r ELSE r

RECURSIVE FoldResolve(_, _)
FoldResolve(a, rest) ==
    IF rest = <<>> THEN a
    ELSE FoldResolve(common_resolve(a, Head(rest)), Tail(rest))

common_resolve_n(ps) ==
    IF ps = <<>> THEN <<>>
    ELSE IF Len(ps) = 1 THEN common_resolve_one(ps[1])
    ELSE FoldResolve(common_resolve(ps[1], ps[2]), SubSeq(ps, 3, Len(ps)))

(***************************************************************************)
(* common.rs: the generic relative-path computer.                          *)
(***************************************************************************)
\* remove_empty: reads parts[1] (the second element), which must exist
remove_empty(parts) ==
    IF Len(parts) < 2 THEN VecPanic
    ELSE IF parts[2] = <<>> THEN RemoveAt(parts, 1)
    ELSE parts

\* CommonCount with the comparison loop stopping one position early
RECURSIVE CommonCountShort(_, _)
CommonCountShort(from_parts, to_parts) ==
    IF Len(from_parts) <= 1 \/ Len(to_parts) <= 1 THEN 0
    ELSE IF Head(from_parts) # Head(to_parts) THEN 0
    ELSE 1 + CommonCountShort(Tail(from_parts), Tail(to_parts))

\* the number of leading positions at which the two lists agree; the loop
\* pushes 0, 1, ..., k-1 into common_indices
RECURSIVE CommonCount(_, _)
CommonCount(from_parts, to_parts) ==
    IF from_parts = <<>> \/ to_parts = <<>> THEN 0
    ELSE IF Head(from_parts) # Head(to_parts) THEN 0
    ELSE 1 + CommonCount(Tail(from_parts), Tail(to_parts))

\* for i in common_indices.iter().rev() { parts.remove(common_indices[*i]) }
\* with common_indices = [0, ..., k-1], so that common_indices[i] = i
RECURSIVE RemoveCommon(_, _)
RemoveCommon(parts, k) ==
    IF k = 0 \/ parts = VecPanic THEN parts
    ELSE RemoveCommon(RemoveAt(parts, k - 1), k - 1)

RECURSIVE DotDots(_)
DotDots(n) == IF n = 0 THEN <<>> ELSE << <<Dot, Dot>> >> \o DotDots(n - 1)

\* relative after its assert!: the segment lists, the common run, the result
relative_of_parts(from_path, to_path) ==
    LET from0 == remove_empty(Split(common_resolve_one(from_path)))
        to0 == remove_empty(Split(common_resolve_one(to_path)))
    IN  IF from0 = VecPanic \/ to0 = VecPanic THEN Panic
        ELSE LET k == CommonCount(from0, to0)
                 from_parts == RemoveCommon(from0, k)
                 to_parts == RemoveCommon(to0, k)
             IN  IF from_parts = VecPanic \/ to_parts = VecPanic THEN Panic
                 ELSE LET r == TrimStart(Join(DotDots(Len(from_parts)) \o to_parts))
                      IN  IF r # <<>> /\ r[Len(r)] = Slash
                          THEN SubSeq(r, 1, Len(r) - 1)
                          ELSE r

common_relative(from_path, to_path) ==
    IF ~(StartsWithPathSeparator(from_path) /\ StartsWithPathSeparator(to_path))
    THEN Panic
    ELSE relative_of_parts(from_path, to_path)

(***************************************************************************)
(* argumented.rs: the platform variant dispatcher.                         *)
(***************************************************************************)
\* the value of Regex::find when the pattern does not match (a match of
\* either pattern below holds at least one character)
NoMatch == <<>>

\* STARTS_WITH_WINDOWS_PATH_PREFIX.find(path): ^((\\\\)|([A-Za-z]\:))
WindowsPathPrefix(path) ==
    IF Len(path) >= 2 /\ path[1] = Backslash /\ path[2] = Backslash THEN SubSeq(path, 1, 2)
    ELSE IF Len(path) >= 2 /\ path[1] \in AsciiLetters /\ path[2] = Colon THEN SubSeq(path, 1, 2)
    ELSE NoMatch

\* STARTS_WITH_WINDOWS_PATH_PREFIX_OR_SLASH.find(path):
\* ^((\\\\)|([A-Za-z]\:)|[\/\\]([^\\]|$)); the third alternative takes the
\* separator together with the character after it, when there is one
\* WindowsPathPrefixOrSlash with [^\/\\] in place of [^\\]: a separator counts
\* only when no separator follows it
WindowsPathPrefixOrSingleSlash(path) ==
    IF WindowsPathPrefix(path) # NoMatch THEN WindowsPathPrefix(path)
    ELSE IF Len(path) >= 2 /\ IsSeparator(path[1]) /\ ~IsSeparator(path[2]) THEN SubSeq(path, 1, 2)
    ELSE IF Len(path) = 1 /\ IsSeparator(path[1]) THEN path
    ELSE NoMatch

WindowsPathPrefixOrSlash(path) ==
    IF WindowsPathPrefix(path) # NoMatch THEN WindowsPathPrefix(path)
    ELSE IF Len(path) >= 2 /\ IsSeparator(path[1]) /\ path[2] # Backslash THEN SubSeq(path, 1, 2)
    ELSE IF Len(path) = 1 /\ IsSeparator(path[1]) THEN path
    ELSE NoMatch

\* STARTS_WITH_WINDOWS_PATH_PREFIX.replace(path, "/")
ReplaceWindowsPathPrefix(path) ==
    IF WindowsPathPrefix(path) # NoMatch
    THEN <<Slash>> \o SubSeq(path, Len(WindowsPathPrefix(path)) + 1, Len(path))
    ELSE path

UNC_PREFIX == <<Backslash, Backslash>>

resolve(path1, path2, variant) ==
    IF variant = "Default" THEN common_resolve(path1, path2)
    ELSE LET prefixed == SelectSeq(<<path1, path2>>, LAMBDA p : WindowsPathPrefix(p) # NoMatch)
         IN  IF prefixed = <<>> THEN common_resolve(path1, path2)
             ELSE LET prefix == WindowsPathPrefix(prefixed[Len(prefixed)])
                      r == common_resolve(ReplaceWindowsPathPrefix(path1),
                                          ReplaceWindowsPathPrefix(path2))
                  IN  IF prefix = UNC_PREFIX
                      THEN (IF SliceFrom(r, 1) = Panic THEN Panic
                            ELSE UNC_PREFIX \o SliceFrom(r, 1))
                      ELSE prefix \o r

\* FoldResolveVariant with the accumulator fed back as path2 instead of path1
RECURSIVE FoldResolveSwapped(_, _, _)
FoldResolveSwapped(a, rest, variant) ==
    IF rest = <<>> \/ a = Panic THEN a
    ELSE FoldResolveSwapped(resolve(Head(rest), a, variant), Tail(rest), variant)

RECURSIVE FoldResolveVariant(_, _, _)
FoldResolveVariant(a, rest, variant) ==
    IF rest = <<>> \/ a = Panic THEN a
    ELSE FoldResolveVariant(resolve(a, Head(rest), variant), Tail(rest), variant)

resolve_n(ps, variant) ==
    IF ps = <<>> THEN <<>>
    ELSE IF Len(ps) = 1 THEN resolve(ps[1], <<>>, variant)
    ELSE FoldResolveVariant(resolve(ps[1], ps[2], variant), SubSeq(ps, 3, Len(ps)), variant)

resolve_one(path, variant) == resolve_n(<<path>>, variant)

is_absolute(path, variant) ==
    IF variant = "Default" THEN StartsWithPathSeparator(path)
    ELSE WindowsPathPrefixOrSlash(path) # NoMatch

\* the loop body of relative over paths: strip the prefix, restore the separator
StripPrefix(path, prefix) ==
    LET stripped == SliceFrom(path, Len(prefix))
    IN  IF stripped = Panic THEN Panic
        ELSE IF ~StartsWithPathSeparator(stripped) THEN <<Slash>> \o stripped
        ELSE stripped

\* relative with the assert! of the Windows branch left out
relative_unasserted(from_path, to_path, variant) ==
    IF variant = "Default" THEN common_relative(from_path, to_path)
    ELSE LET prefix == WindowsPathPrefixOrSlash(from_path)
         IN  IF prefix # WindowsPathPrefixOrSlash(to_path) THEN resolve_one(to_path, variant)
             ELSE LET p0 == StripPrefix(from_path, prefix)
                      p1 == StripPrefix(to_path, prefix)
                  IN  IF p0 = Panic \/ p1 = Panic THEN Panic
                      ELSE common_relative(p0, p1)

\* relative with the test of the two prefixes left out: the prefix of from_path
\* is stripped from both paths whatever the prefix of to_path
relative_one_prefix(from_path, to_path, variant) ==
    IF variant = "Default" THEN common_relative(from_path, to_path)
    ELSE IF ~(is_absolute(from_path, variant) /\ is_absolute(to_path, variant)) THEN Panic
    ELSE LET prefix == WindowsPathPrefixOrSlash(from_path)
             p0 == StripPrefix(from_path, prefix)
             p1 == StripPrefix(to_path, prefix)
         IN  IF p0 = Panic \/ p1 = Panic THEN Panic
             ELSE common_relative(p0, p1)

relative(from_path, to_path, variant) ==
    IF variant = "Default" THEN common_relative(from_path, to_path)
    ELSE IF ~(is_absolute(from_path, variant) /\ is_absolute(to_path, variant)) THEN Panic
    ELSE LET prefix == WindowsPathPrefixOrSlash(from_path)
         IN  IF prefix # WindowsPathPrefixOrSlash(to_path) THEN resolve_one(to_path, variant)
             ELSE LET p0 == StripPrefix(from_path, prefix)
                      p1 == StripPrefix(to_path, prefix)
                  IN  IF p0 = Panic \/ p1 = Panic THEN Panic
                      ELSE common_relative(p0, p1)

(***************************************************************************)
(* lib.rs: the extension helpers.                                          *)
(***************************************************************************)
\* (if extension.starts_with('.') { "" } else { "." }) + extension
DotExtension(extension) ==
    IF StartsWith(extension, <<Dot>>) THEN extension ELSE <<Dot>> \o extension

\* whether the whole of s matches (\.[^\.]+)+ : groups of a dot followed by one
\* or more characters that are no dot
RECURSIVE IsExtensionRun(_)
IsExtensionRun(s) ==
    /\ Len(s) >= 2
    /\ s[1] = Dot
    /\ s[2] # Dot
    /\ LET rest == SubSeq(s, 3, Len(s))
       IN  \/ \A k \in 1..Len(rest) : rest[k] # Dot
           \/ \E k \in 1..Len(rest) :
                /\ \A m \in 1..(k - 1) : rest[m] # Dot
                /\ IsExtensionRun(SubSeq(rest, k, Len(rest)))

\* whether the whole of s matches (\..+) : a dot followed by one or more
\* characters that are no line feed (U+000A)
IsDotSuffix(s) ==
    /\ Len(s) >= 2
    /\ s[1] = Dot
    /\ \A k \in 2..Len(s) : s[k] # 10

\* the leftmost of the match starts of a pattern, 0 when there is none
Leftmost(starts) ==
    IF starts = {} THEN 0 ELSE CHOOSE k \in starts : \A m \in starts : k <= m

\* the start (one-based) of the match of (\.[^\.]+)+$ in path, 0 when none
ExtensionRunStart(path) ==
    Leftmost({k \in 1..Len(path) : IsExtensionRun(SubSeq(path, k, Len(path)))})

\* the start (one-based) of the match of (\..+)$ in path, 0 when none
DotSuffixStart(path) ==
    Leftmost({k \in 1..Len(path) : IsDotSuffix(SubSeq(path, k, Len(path)))})

change_extension(path, extension) ==
    LET ext == DotExtension(extension)
        k == ExtensionRunStart(path)
    IN  IF k = 0 THEN path \o ext
        ELSE SubSeq(path, 1, k - 1) \o ext

change_last_extension(path, extension) ==
    LET ext == DotExtension(extension)
        k == DotSuffixStart(path)
    IN  IF \E m \in 2..Len(ext) : ext[m] = Dot THEN Panic
        ELSE IF k = 0 THEN path \o ext
        ELSE SubSeq(path, 1, k - 1) \o ext

(***************************************************************************)
(* The free functions applied to given arguments: paths holds the path     *)
(* arguments of one call, manipulation its variant, op the function that   *)
(* ran last and out what it returned.                                      *)
(***************************************************************************)
\* longest path string given to a call that takes three paths
MaxTripleLen == 1

NoPath == [s |-> <<>>, variant |-> "none"]

\* the path arguments of one call: none, one, two or three path strings
IsArgList(ps) ==
    \/ ps = <<>>
    \/ \E p \in Strings(MaxLen) : ps = <<p>>
    \/ \E p \in Strings(MaxPairLen), q \in Strings(MaxPairLen) : ps = <<p, q>>
    \/ \E p \in Strings(MaxTripleLen), q \in Strings(MaxTripleLen),
          r \in Strings(MaxTripleLen) : ps = <<p, q, r>>

FnInit ==
    /\ IsArgList(paths)
    /\ manipulation \in Variants
    /\ op = "none"
    /\ out = <<>>
    /\ self = NoPath

CallResolve ==
    /\ op = "none" /\ Len(paths) = 2
    /\ out' = resolve(paths[1], paths[2], manipulation)
    /\ op' = "resolve"
    /\ UNCHANGED <<paths, manipulation, self>>

CallResolveN ==
    /\ op = "none"
    /\ out' = resolve_n(paths, manipulation)
    /\ op' = "resolve_n"
    /\ UNCHANGED <<paths, manipulation, self>>

\* common::resolve_n, which takes no variant
CallCommonResolveN ==
    /\ op = "none" /\ manipulation = "Default"
    /\ out' = common_resolve_n(paths)
    /\ op' = "common_resolve_n"
    /\ UNCHANGED <<paths, manipulation, self>>

CallResolveOne ==
    /\ op = "none" /\ Len(paths) = 1
    /\ out' = resolve_one(paths[1], manipulation)
    /\ op' = "resolve_one"
    /\ UNCHANGED <<paths, manipulation, self>>

\* resolve_one applied to what resolve_one returned
CallResolveOneAgain ==
    /\ op = "resolve_one" /\ out # Panic
    /\ out' = resolve_one(out, manipulation)
    /\ op' = "resolve_one_twice"
    /\ UNCHANGED <<paths, manipulation, self>>

CallIsAbsolute ==
    /\ op = "none" /\ Len(paths) = 1
    /\ out' = is_absolute(paths[1], manipulation)
    /\ op' = "is_absolute"
    /\ UNCHANGED <<paths, manipulation, self>>

CallRelative ==
    /\ op = "none" /\ Len(paths) = 2
    /\ out' = relative(paths[1], paths[2], manipulation)
    /\ op' = "relative"
    /\ UNCHANGED <<paths, manipulation, self>>

\* relative from a path to the same path
CallRelativeSelf ==
    /\ op = "none" /\ Len(paths) = 1
    /\ out' = relative(paths[1], paths[1], manipulation)
    /\ op' = "relative_self"
    /\ UNCHANGED <<paths, manipulation, self>>

\* resolve applied to from_path and to what relative returned
CallResolveRelative ==
    /\ op = "relative" /\ out # Panic
    /\ out' = resolve(paths[1], out, manipulation)
    /\ op' = "resolve_relative"
    /\ UNCHANGED <<paths, manipulation, self>>

CallChangeExtension ==
    /\ op = "none" /\ Len(paths) = 2
    /\ out' = change_extension(paths[1], paths[2])
    /\ op' = "change_extension"
    /\ UNCHANGED <<paths, manipulation, self>>

CallChangeLastExtension ==
    /\ op = "none" /\ Len(paths) = 2
    /\ out' = change_last_extension(paths[1], paths[2])
    /\ op' = "change_last_extension"
    /\ UNCHANGED <<paths, manipulation, self>>

FnNext ==
    \/ CallResolve
    \/ CallResolveN
    \/ CallCommonResolveN
    \/ CallResolveOne
    \/ CallResolveOneAgain
    \/ CallIsAbsolute
    \/ CallRelative
    \/ CallRelativeSelf
    \/ CallResolveRelative
    \/ CallChangeExtension
    \/ CallChangeLastExtension

FnSpec == FnInit /\ [][FnNext]_vars

(***************************************************************************)
(* The extension helpers applied to a path and an extension: paths holds   *)
(* the two arguments.  The helpers take no variant.                        *)
(***************************************************************************)
\* longest `path` argument of an extension helper
MaxExtPathLen == 5
\* longest `extension` argument of an extension helper
MaxExtLen == 2

ExtInit ==
    /\ \E path \in Strings(MaxExtPathLen), extension \in Strings(MaxExtLen) :
          paths = <<path, extension>>
    /\ manipulation = "none"
    /\ op = "none"
    /\ out = <<>>
    /\ self = NoPath

ExtNext ==
    \/ CallChangeExtension
    \/ CallChangeLastExtension

ExtSpec == ExtInit /\ [][ExtNext]_vars

(***************************************************************************)
(* lib.rs: the Path value.  self is the Path(String, PlatformPathVariant)  *)
(* at hand, op the constructor or method that ran last, out what it        *)
(* returned (the string of the new Path, the String of relative, or Panic) *)
(* and paths the `paths` argument of from_n and resolve_n.  A method that  *)
(* returns a Path makes the returned value the Path at hand.               *)
(***************************************************************************)
\* longest string a Path at hand holds before the model stops deriving from it
MaxPathLen == 3
\* longest `path2`, `to_path` or `extension` argument of a method
MaxArgLen == 2
\* longest path string in the `paths` argument of from_n and resolve_n
MaxListArgLen == 1
\* longest `paths` argument of from_n and resolve_n
MaxPaths == 2

Path(s, variant) == [s |-> s, variant |-> variant]

PathLists == UNION {[1..k -> Strings(MaxListArgLen)] : k \in 0..MaxPaths}

PathInit ==
    /\ self = NoPath
    /\ op = "none"
    /\ out = <<>>
    /\ paths = <<>>
    /\ manipulation = "none"

\* what a constructor or a method returning a Path leaves behind
Returned(name, s, variant, list) ==
    /\ op' = name
    /\ out' = s
    /\ paths' = list
    /\ self' = IF s = Panic THEN self ELSE Path(s, variant)
    /\ UNCHANGED manipulation

\* Path::new, and Path::new_common with variant "Default"
New(path, variant) ==
    /\ self = NoPath
    /\ Returned("new", resolve_one(path, variant), variant, <<>>)

\* Path::from_n, and Path::from_n_common with variant "Default"
FromN(ps, variant) ==
    /\ self = NoPath
    /\ Returned("from_n", resolve_n(ps, variant), variant, ps)

Derivable == self # NoPath /\ Len(self.s) <= MaxPathLen

PathResolve(path2) ==
    /\ Derivable
    /\ Returned("resolve", resolve(self.s, path2, self.variant), self.variant, <<>>)

PathResolveN(ps) ==
    /\ Derivable
    /\ Returned("resolve_n",
                resolve(self.s, resolve_n(ps, self.variant), self.variant),
                self.variant, ps)

PathRelative(to_path) ==
    /\ Derivable
    /\ op' = "relative"
    /\ out' = relative(self.s, to_path, self.variant)
    /\ paths' = <<>>
    /\ UNCHANGED <<self, manipulation>>

PathChangeExtension(extension) ==
    /\ Derivable
    /\ Returned("change_extension", change_extension(self.s, extension), self.variant, <<>>)

PathChangeLastExtension(extension) ==
    /\ Derivable
    /\ Returned("change_last_extension", change_last_extension(self.s, extension),
                self.variant, <<>>)

PathNext ==
    \/ \E path \in Strings(MaxLen), variant \in Variants : New(path, variant)
    \/ \E ps \in PathLists, variant \in Variants : FromN(ps, variant)
    \/ \E path2 \in Strings(MaxArgLen) : PathResolve(path2)
    \/ \E ps \in PathLists : PathResolveN(ps)
    \/ \E to_path \in Strings(MaxArgLen) : PathRelative(to_path)
    \/ \E extension \in Strings(MaxArgLen) : PathChangeExtension(extension)
    \/ \E extension \in Strings(MaxArgLen) : PathChangeLastExtension(extension)

PathSpec == PathInit /\ [][PathNext]_vars

(***************************************************************************)
(* The properties.                                                         *)
(***************************************************************************)
\* the Prefix of a path under a variant: the UNC marker or the drive letter
\* with its colon (Windows only), the leading separator, or none
PrefixOf(path, variant) ==
    IF variant = "Windows" /\ WindowsPathPrefix(path) # NoMatch THEN WindowsPathPrefix(path)
    ELSE IF StartsWithPathSeparator(path) THEN <<Slash>>
    ELSE NoMatch

BothAbsolute ==
    /\ Len(paths) = 2
    /\ is_absolute(paths[1], manipulation)
    /\ is_absolute(paths[2], manipulation)

\* C1: override law: resolve(p, q, variant) is resolve_one(q, variant) whenever
\* q is absolute under the variant, whatever p is.
C1_OverrideLaw ==
    (op = "resolve" /\ is_absolute(paths[2], manipulation))
        => out = resolve_one(paths[2], manipulation)

\* C2: relative round trip: for a and b absolute under the variant and with the
\* same prefix, relative(a, b) does not fail and resolve(a, relative(a, b)) is
\* resolve_one(b).
C2_RelativeRoundTrip ==
    (BothAbsolute /\ PrefixOf(paths[1], manipulation) = PrefixOf(paths[2], manipulation))
        => /\ op = "relative" => out # Panic
           /\ op = "resolve_relative" => out = resolve_one(paths[2], manipulation)

\* C3: resolve_one is idempotent: resolve_one applied to its own result
\* returns that result.
C3_Idempotence ==
    op = "resolve_one_twice" => out = resolve_one(paths[1], manipulation)

\* C4: the Path value invariant: the string a Path holds is a fixed point of
\* resolve_one under the variant of the Path.
C4_PathInvariant ==
    self # NoPath => resolve_one(self.s, self.variant) = self.s

\* C5: relative panics, and returns no string, when from_path or to_path is not
\* absolute under the variant: under Default when one of them does not start
\* with `/` or `\`, under Windows when one of them fails is_absolute.
C5_RelativePanics ==
    (/\ op = "relative"
     /\ \E i \in 1..2 :
          IF manipulation = "Default"
          THEN paths[i] = <<>> \/ paths[i][1] \notin {Slash, Backslash}
          ELSE ~is_absolute(paths[i], "Windows"))
        => out = Panic

\* C5 witness: relative under Windows has panicked on a from_path that starts
\* with a separator and yet is not absolute under Windows.
C5_Witness ==
    /\ op = "relative" /\ manipulation = "Windows"
    /\ StartsWithPathSeparator(paths[1])
    /\ ~is_absolute(paths[1], "Windows")
    /\ is_absolute(paths[2], "Windows")
    /\ out = Panic

\* C6: resolve, resolve_n, resolve_one and is_absolute return a value on every
\* input, and relative returns a value whenever both arguments are absolute
\* under the variant: no index or slice is out of range.
C6_NoOtherPanic ==
    /\ op \in {"resolve", "resolve_n", "resolve_one", "resolve_one_twice", "resolve_relative"}
         => out # Panic
    /\ op = "is_absolute" => out \in BOOLEAN
    /\ (op = "relative" /\ BothAbsolute) => out # Panic
    /\ (op = "relative_self" /\ is_absolute(paths[1], manipulation)) => out # Panic

\* C6 witness: relative under Windows has returned a value for a bare UNC
\* marker and the root.
C6_Witness ==
    /\ op = "relative" /\ manipulation = "Windows"
    /\ paths = <<UNC_PREFIX, <<Slash>>>>
    /\ out = <<Slash>>

\* C7 as stated: under Windows a path is absolute iff it starts with the UNC
\* prefix, a drive-letter prefix, or a separator followed by a character that
\* is no separator or by the end of the string; under Default iff it starts
\* with a separator.
C7_AbsoluteAsStated ==
    op = "is_absolute" =>
        LET p == paths[1]
        IN  out = IF manipulation = "Default"
                  THEN Len(p) >= 1 /\ p[1] \in {Slash, Backslash}
                  ELSE \/ Len(p) >= 2 /\ p[1] = Backslash /\ p[2] = Backslash
                       \/ Len(p) >= 2 /\ p[1] \in AsciiLetters /\ p[2] = Colon
                       \/ /\ Len(p) >= 1 /\ p[1] \in {Slash, Backslash}
                          /\ (Len(p) = 1 \/ p[2] \notin {Slash, Backslash})

\* C7 amended: under Windows a path is absolute iff it starts with the UNC
\* prefix, a drive-letter prefix, or a separator followed by any character but
\* a backslash or by the end of the string; under Default iff it starts with a
\* separator.
C7_Absolute ==
    op = "is_absolute" =>
        LET p == paths[1]
        IN  out = IF manipulation = "Default"
                  THEN Len(p) >= 1 /\ p[1] \in {Slash, Backslash}
                  ELSE \/ Len(p) >= 2 /\ p[1] = Backslash /\ p[2] = Backslash
                       \/ Len(p) >= 2 /\ p[1] \in AsciiLetters /\ p[2] = Colon
                       \/ /\ Len(p) >= 1 /\ p[1] \in {Slash, Backslash}
                          /\ (Len(p) = 1 \/ p[2] # Backslash)

\* C7 witness: is_absolute under Windows has accepted a path that starts with
\* two forward slashes.
C7_Witness ==
    /\ op = "is_absolute" /\ manipulation = "Windows"
    /\ Len(paths[1]) >= 3 /\ paths[1][1] = Slash /\ paths[1][2] = Slash
    /\ out = TRUE

\* C8: under Windows, for from_path and to_path that start with a single
\* separator and carry no drive-letter or UNC prefix, relative returns what
\* the generic relative returns.
C8_WindowsRelativeIsGeneric ==
    (/\ op = "relative" /\ manipulation = "Windows"
     /\ \A i \in 1..2 :
          /\ StartsWithPathSeparator(paths[i])
          /\ (Len(paths[i]) = 1 \/ ~IsSeparator(paths[i][2])))
        => out = common_relative(paths[1], paths[2])

\* C9: under Windows, for absolute from_path and to_path whose prefixes differ,
\* relative returns resolve_one(to_path), which holds no `..` segment.
C9_DifferentPrefixes ==
    (/\ op = "relative" /\ manipulation = "Windows" /\ BothAbsolute
     /\ PrefixOf(paths[1], "Windows") # PrefixOf(paths[2], "Windows"))
        => /\ out = resolve_one(paths[2], "Windows")
           /\ \A k \in 1..Len(Split(out)) : Split(out)[k] # <<Dot, Dot>>

\* C9 witness: relative between two different drive letters has returned the
\* resolved form of to_path.
C9_Witness ==
    /\ op = "relative" /\ manipulation = "Windows"
    /\ PrefixOf(paths[1], "Windows") = <<97, Colon>>
    /\ PrefixOf(paths[2], "Windows") = <<98, Colon>>
    /\ out = <<98, Colon, Slash>>

\* C10: reflexivity: relative(p, p) is the empty string for every p that is
\* absolute under the variant.
C10_Reflexivity ==
    /\ (op = "relative" /\ BothAbsolute /\ paths[1] = paths[2]) => out = <<>>
    /\ (op = "relative_self" /\ is_absolute(paths[1], manipulation)) => out = <<>>

\* C10 witness: relative has returned the empty string from an unnormalised
\* path on a drive to itself.
C10_Witness ==
    /\ op = "relative_self" /\ manipulation = "Windows"
    /\ paths[1] = <<97, Colon, Dot, Dot>>
    /\ out = <<>>

\* the number of dots in s
RECURSIVE DotCount(_)
DotCount(s) ==
    IF s = <<>> THEN 0
    ELSE (IF Head(s) = Dot THEN 1 ELSE 0) + DotCount(Tail(s))

\* the position of the last dot of s, 0 when s holds no dot
LastDot(s) ==
    IF \A k \in 1..Len(s) : s[k] # Dot THEN 0
    ELSE CHOOSE k \in 1..Len(s) : s[k] = Dot /\ \A m \in (k + 1)..Len(s) : s[m] # Dot

\* C11: on a file name made of a base without dots followed by extension groups,
\* change_last_extension replaces only the final `.segment` (the last dot and
\* the characters after it) with the extension, its dot prepended when
\* missing, so that base.x.y with .z gives base.x.z; on a path without a dot
\* it appends the extension; it panics when the extension holds more than one
\* dot.
C11_ChangeLastExtension ==
    op = "change_last_extension" =>
        LET path == paths[1]
            ext == IF paths[2] # <<>> /\ paths[2][1] = Dot THEN paths[2]
                   ELSE <<Dot>> \o paths[2]
            k == LastDot(path)
        IN  /\ DotCount(paths[2]) > 1 => out = Panic
            /\ (DotCount(ext) = 1 /\ k = 0) => out = path \o ext
            /\ (/\ DotCount(ext) = 1
                /\ path # <<>> /\ path[1] # Dot
                /\ \A m \in 1..Len(path) : ~IsSeparator(path[m])
                /\ Len(ext) >= 2
                /\ ExtensionRunStart(path) > 0
                /\ \A m \in 1..(ExtensionRunStart(path) - 1) : path[m] # Dot)
                 => out = SubSeq(path, 1, k - 1) \o ext

\* C12: Path::resolve_n with an empty sequence of paths returns a Path whose
\* string is empty, whatever the receiver.
C12_ResolveNEmpty ==
    (op = "resolve_n" /\ paths = <<>>) => (out = <<>> /\ self.s = <<>>)

\* the segment list of a resolved path: its non-empty pieces
Segments(path) == SelectSeq(Split(path), LAMBDA piece : piece # <<>>)

\* the length of the longest common leading run of two segment lists
CommonRun(F, T) ==
    CHOOSE k \in 0..Len(F) :
        /\ k <= Len(T)
        /\ SubSeq(F, 1, k) = SubSeq(T, 1, k)
        /\ (k < Len(F) /\ k < Len(T)) => F[k + 1] # T[k + 1]

\* C13: the generic relative of two absolute paths is one `..` for each
\* segment of resolve_one(from) after the common leading run, followed by the
\* segments of resolve_one(to) after that run, unaltered, joined by `/`; it
\* never ends with a separator.
C13_GenericRelative ==
    (op = "relative" /\ manipulation = "Default" /\ BothAbsolute) =>
        LET F == Segments(resolve_one(paths[1], "Default"))
            T == Segments(resolve_one(paths[2], "Default"))
            k == CommonRun(F, T)
        IN  /\ out = Join(DotDots(Len(F) - k) \o SubSeq(T, k + 1, Len(T)))
            /\ (out = <<>> \/ ~IsSeparator(out[Len(out)]))

\* the normal form of a resolved path r: no backslash, no empty, `.` or `..`
\* segment, no trailing separator unless r is `/`, and a leading `/` exactly
\* when rooted holds
NormalForm(r, rooted) ==
    /\ \A k \in 1..Len(r) : r[k] # Backslash
    /\ LET body == IF r # <<>> /\ r[1] = Slash THEN Tail(r) ELSE r
       IN  body = <<>> \/ \A k \in 1..Len(Split(body)) :
                              Split(body)[k] \notin {<<>>, <<Dot>>, <<Dot, Dot>>}
    /\ (r = <<>> \/ r = <<Slash>> \/ r[Len(r)] # Slash)
    /\ (r # <<>> /\ r[1] = Slash) <=> rooted

\* C14: under Default, what resolve_one, resolve and resolve_n return is in
\* normal form and starts with `/` exactly when an input starts with a
\* separator; a leading `..` is dropped as a leading `.` is, and the empty
\* input gives the empty string.
C14_NormalForm ==
    manipulation = "Default" =>
        /\ op = "resolve_one" =>
             /\ NormalForm(out, StartsWithPathSeparator(paths[1]))
             /\ paths[1] = <<>> => out = <<>>
             /\ (Len(paths[1]) >= 3 /\ SubSeq(paths[1], 1, 2) = <<Dot, Dot>>
                   /\ IsSeparator(paths[1][3]))
                  => out = resolve_one(Tail(paths[1]), "Default")
        /\ op \in {"resolve", "resolve_n", "common_resolve_n"} =>
             NormalForm(out, \E i \in 1..Len(paths) : StartsWithPathSeparator(paths[i]))

\* C14 witness: resolve_one under Default has dropped the leading `..` of a
\* relative path and kept the segment after it.
C14_Witness ==
    /\ op = "resolve_one" /\ manipulation = "Default"
    /\ paths[1] = <<Dot, Dot, Slash, 97>>
    /\ out = <<97>>

\* resolve(...resolve(resolve(p0, p1), p2)..., pn) for two or more paths,
\* written over the prefix of the list
RECURSIVE LeftFold(_, _)
LeftFold(ps, variant) ==
    IF Len(ps) = 2 THEN resolve(ps[1], ps[2], variant)
    ELSE resolve(LeftFold(SubSeq(ps, 1, Len(ps) - 1), variant), ps[Len(ps)], variant)

RECURSIVE CommonLeftFold(_)
CommonLeftFold(ps) ==
    IF Len(ps) = 2 THEN common_resolve(ps[1], ps[2])
    ELSE common_resolve(CommonLeftFold(SubSeq(ps, 1, Len(ps) - 1)), ps[Len(ps)])

\* C15: resolve_n is the left fold of resolve under either variant, and the
\* generic resolve_n that of the generic resolve: the empty list gives the
\* empty string, one path p gives resolve(p, ""), and two or more paths give
\* resolve(...resolve(resolve(p0, p1), p2)..., pn).
C15_LeftFold ==
    /\ op = "resolve_n" =>
         out = IF paths = <<>> THEN <<>>
               ELSE IF Len(paths) = 1 THEN resolve(paths[1], <<>>, manipulation)
               ELSE LeftFold(paths, manipulation)
    /\ op = "common_resolve_n" =>
         out = IF paths = <<>> THEN <<>>
               ELSE IF Len(paths) = 1 THEN common_resolve(paths[1], <<>>)
               ELSE CommonLeftFold(paths)

\* C15 witness: resolve_n of three paths has fed resolve("a", "/") back as
\* path1 of the resolve with the third path.
C15_Witness ==
    /\ op = "resolve_n" /\ manipulation = "Windows"
    /\ paths = << <<97>>, <<Slash>>, <<98>> >>
    /\ out = <<Slash, 98>>

====
